---- MODULE Spec2Model ----
(***************************************************************************)
(* Photo Map Viewer: the metadata extractor (photos_util.py) and the cache *)
(* and click logic of the Dash application (app.py).                       *)
(*                                                                         *)
(* Python strings are modelled as tuples of one-character strings, so that *)
(* suffix(), lower(), upper(), endswith(), replace(), strptime(), str()    *)
(* and the CSV cell parser are computed character by character.  A float   *)
(* coordinate is modelled exactly, as an integer number of arc-seconds     *)
(* (degrees * 3600); binary rounding is not modelled.                      *)
(***************************************************************************)
EXTENDS Integers, Sequences, FiniteSets, TLC

VARIABLES
    assets,     \* the photo directory ASSETS_PATH: NoDir, or the set of its entries
    cache,      \* the file saved_df.csv: NoFile, or its lines (records of text cells)
    pc,         \* the process: "stopped", "serving" (module loaded) or "crashed"
    df,         \* the module-level DataFrame of app.py (a sequence of rows)
    call,       \* what the get_df call of the current process did
    mapClick,   \* the clickData property of the Map element
    src,        \* the src property of the html-img element
    built,      \* history: the DataFrame get_df returned when it wrote the cache file
    conv        \* the latest convert_coords_to_decimal call: arguments and outcome

vars == <<assets, cache, pc, df, call, mapClick, src, built, conv>>

----------------------------------------------------------------------------
(* Bounds of the model *)

\* largest number of entries in the photo directory
MaxFiles == 2

\* largest number of entries in the photo directory of the day scenarios
MaxDayFiles == 4

\* largest small degree, minute and second component tried on the converter
MaxComponent == 2

----------------------------------------------------------------------------
(* Python str operations, on tuples of characters *)

UpperCase == <<"A","B","C","D","E","F","G","H","I","J","K","L","M",
               "N","O","P","Q","R","S","T","U","V","W","X","Y","Z">>
LowerCase == <<"a","b","c","d","e","f","g","h","i","j","k","l","m",
               "n","o","p","q","r","s","t","u","v","w","x","y","z">>
Digits == <<"0","1","2","3","4","5","6","7","8","9">>

LowerChar(c) ==
    IF \E k \in 1..26 : UpperCase[k] = c
    THEN LowerCase[CHOOSE k \in 1..26 : UpperCase[k] = c]
    ELSE c

UpperChar(c) ==
    IF \E k \in 1..26 : LowerCase[k] = c
    THEN UpperCase[CHOOSE k \in 1..26 : LowerCase[k] = c]
    ELSE c

\* str.lower()
Lower(s) == [k \in 1..Len(s) |-> LowerChar(s[k])]

\* str.upper()
Upper(s) == [k \in 1..Len(s) |-> UpperChar(s[k])]

\* does t occur in s at position p
OccursAt(s, t, p) ==
    /\ p >= 1
    /\ p + Len(t) - 1 <= Len(s)
    /\ \A k \in 1..Len(t) : s[p + k - 1] = t[k]

\* str.endswith(t)
EndsWith(s, t) == OccursAt(s, t, Len(s) - Len(t) + 1)

\* str.replace(old, new) for a non-empty old: every occurrence, left to right
RECURSIVE ReplaceFrom(_, _, _, _)
ReplaceFrom(s, old, new, p) ==
    IF p > Len(s) THEN <<>>
    ELSE IF OccursAt(s, old, p)
         THEN new \o ReplaceFrom(s, old, new, p + Len(old))
         ELSE <<s[p]>> \o ReplaceFrom(s, old, new, p + 1)

Replace(s, old, new) == ReplaceFrom(s, old, new, 1)

\* str.rfind("."): the last position of a dot, 0 when there is none
\* (positions count from 1 here, from 0 in Python)
RFindDot(s) ==
    IF \E k \in 1..Len(s) : s[k] = "."
    THEN CHOOSE k \in 1..Len(s) : s[k] = "." /\ \A j \in (k+1)..Len(s) : s[j] # "."
    ELSE 0

\* pathlib's PurePath.suffix of a one-component path: the text from the last
\* dot on, unless that dot is the first or the last character
Suffix(name) ==
    LET d == RFindDot(name) IN
    IF 1 < d /\ d < Len(name) THEN SubSeq(name, d, Len(name)) ELSE <<>>

IsDigit(c) == \E k \in 1..10 : Digits[k] = c

DigitVal(c) == (CHOOSE k \in 1..10 : Digits[k] = c) - 1

\* str(n) of a natural number
RECURSIVE NatToStr(_)
NatToStr(n) ==
    IF n < 10 THEN <<Digits[n + 1]>>
    ELSE NatToStr(n \div 10) \o <<Digits[(n % 10) + 1]>>

\* str(n) of an integer
IntToStr(n) == IF n < 0 THEN <<"-">> \o NatToStr(0 - n) ELSE NatToStr(n)

\* the value of a non-empty string of digits
RECURSIVE StrToNat(_)
StrToNat(s) ==
    IF Len(s) = 0 THEN 0
    ELSE 10 * StrToNat(SubSeq(s, 1, Len(s) - 1)) + DigitVal(s[Len(s)])

AllDigits(s) == Len(s) > 0 /\ \A k \in 1..Len(s) : IsDigit(s[k])

----------------------------------------------------------------------------
(* Python exceptions and values *)

\* the outcome of a call: a value, or the name of the exception raised
Ok(v) == [exc |-> "none", val |-> v]
Raise(e) == [exc |-> e, val |-> 0]

\* one component of an EXIF coordinate: a number (an IFDRational), or text
Num(n) == [t |-> "num", v |-> n]
Txt(s) == [t |-> "str", v |-> s]

\* float(i): a number as it is, a string of digits parsed, any other text
\* raises ValueError
Float(c) ==
    IF c.t = "num" THEN Ok(c.v)
    ELSE IF AllDigits(c.v) THEN Ok(StrToNat(c.v))
    ELSE Raise("ValueError")

----------------------------------------------------------------------------
(* photos_util.convert_coords_to_decimal *)

\* a variant that compares ref without upper()
Multiplier_case_sensitive(ref) ==
    IF ref \in {<<"W">>, <<"S">>} THEN -1
    ELSE IF ref \in {<<"E">>, <<"N">>} THEN 1
    ELSE 0

\* the branch on ref.upper(): mul = -1, mul = 1, or, after the message is
\* printed, mul left unbound (0 here)
Multiplier(ref) ==
    IF Upper(ref) \in {<<"W">>, <<"S">>} THEN -1
    ELSE IF Upper(ref) \in {<<"E">>, <<"N">>} THEN 1
    ELSE 0

\* the return expression, which reads mul first and the components after it
convert_return(mul, floats) ==
    IF \E k \in 1..Len(floats) : floats[k].exc # "none" THEN Raise("ValueError")
    ELSE IF mul = 0 THEN Raise("UnboundLocalError")
    ELSE IF Len(floats) < 3 THEN Raise("IndexError")
    ELSE Ok(mul * (floats[1].val * 3600 + floats[2].val * 60 + floats[3].val))

\* The result is in arc-seconds: 3600 * (deg + min/60 + sec/3600).
\* The steps run in the order of the code: the branch on ref (which only
\* prints for an unknown letter), float() of every component, then the
\* return expression.
convert_coords_to_decimal(coords, ref) ==
    convert_return(Multiplier(ref), [k \in 1..Len(coords) |-> Float(coords[k])])

----------------------------------------------------------------------------
(* datetime.strptime(text, '%Y:%m:%d %H:%M:%S') *)

\* A numeric directive: two digits when they form a value of lo2..hi2,
\* otherwise one digit of lo1..9.  (The directive's regular expression tries
\* the two-digit alternatives first, and a one-digit match after a failed
\* two-digit one cannot be followed by the separator.)
Field(s, p, lo2, hi2, lo1) ==
    IF /\ p + 1 <= Len(s)
       /\ IsDigit(s[p])
       /\ IsDigit(s[p + 1])
       /\ 10 * DigitVal(s[p]) + DigitVal(s[p + 1]) \in lo2..hi2
    THEN [ok |-> TRUE, v |-> 10 * DigitVal(s[p]) + DigitVal(s[p + 1]), next |-> p + 2]
    ELSE IF p <= Len(s) /\ IsDigit(s[p]) /\ DigitVal(s[p]) >= lo1
         THEN [ok |-> TRUE, v |-> DigitVal(s[p]), next |-> p + 1]
         ELSE [ok |-> FALSE, v |-> 0, next |-> p]

\* a literal character of the format at position p
Lit(s, p, c) == p <= Len(s) /\ s[p] = c

\* the blank of the format matches one or more blanks: the position after them
RECURSIVE SkipBlanks(_, _)
SkipBlanks(s, p) == IF Lit(s, p, " ") THEN SkipBlanks(s, p + 1) ELSE p

\* the directives after %Y, in order: %m, %d, %H, %M and %S
Directives == <<[lo2 |-> 1, hi2 |-> 12, lo1 |-> 1],
                [lo2 |-> 1, hi2 |-> 31, lo1 |-> 1],
                [lo2 |-> 0, hi2 |-> 23, lo1 |-> 0],
                [lo2 |-> 0, hi2 |-> 59, lo1 |-> 0],
                [lo2 |-> 0, hi2 |-> 61, lo1 |-> 0]>>

\* the position after the separator in front of directive k (a colon, the
\* blanks in front of %H), 0 when the text has something else there
AfterSeparator(s, p, k) ==
    IF k = 3 THEN (IF SkipBlanks(s, p) > p THEN SkipBlanks(s, p) ELSE 0)
    ELSE IF Lit(s, p, ":") THEN p + 1
    ELSE 0

\* the values of the directives from k on, appended to acc; the empty tuple
\* when the text does not match the format to its end
RECURSIVE parse_fields(_, _, _, _)
RECURSIVE parse_field(_, _, _, _)
RECURSIVE parse_rest(_, _, _, _)
parse_fields(s, p, k, acc) ==
    IF k > Len(Directives) THEN (IF p = Len(s) + 1 THEN acc ELSE <<>>)
    ELSE parse_field(s, AfterSeparator(s, p, k), k, acc)

parse_field(s, q, k, acc) ==
    IF q = 0 THEN <<>>
    ELSE parse_rest(s, Field(s, q, Directives[k].lo2, Directives[k].hi2, Directives[k].lo1),
                    k, acc)

parse_rest(s, f, k, acc) ==
    IF f.ok THEN parse_fields(s, f.next, k + 1, Append(acc, f.v)) ELSE <<>>

IsLeap(y) == (y % 4 = 0 /\ y % 100 # 0) \/ y % 400 = 0

DaysInMonth(y, m) ==
    IF m = 2 THEN (IF IsLeap(y) THEN 29 ELSE 28)
    ELSE IF m \in {4, 6, 9, 11} THEN 30 ELSE 31

\* the datetime constructor, with its range checks, on the parsed fields
make_datetime(y, f) ==
    IF Len(f) = Len(Directives) /\ y >= 1 /\ f[2] <= DaysInMonth(y, f[1]) /\ f[5] <= 59
    THEN Ok([year |-> y, month |-> f[1], day |-> f[2],
             hour |-> f[3], minute |-> f[4], second |-> f[5]])
    ELSE Raise("ValueError")

strptime(s) ==
    IF Len(s) >= 4 /\ AllDigits(SubSeq(s, 1, 4))
    THEN make_datetime(StrToNat(SubSeq(s, 1, 4)), parse_fields(s, 5, 1, <<>>))
    ELSE Raise("ValueError")

----------------------------------------------------------------------------
(* Values of DataFrame cells and of Python variables *)

PyStr(s) == [t |-> "str", v |-> s]
PyInt(n) == [t |-> "int", v |-> n]
\* a float, in arc-seconds
PyFloat(k) == [t |-> "float", v |-> k]
\* a datetime / pandas Timestamp
PyTs(d) == [t |-> "ts", v |-> d]

\* a variable that holds None or a list
PyNone == [isNone |-> TRUE, list |-> <<>>]
PyList(l) == [isNone |-> FALSE, list |-> l]

----------------------------------------------------------------------------
(* photos_util.get_photos_from_path *)

\* the default value of the extensions parameter
Extensions == {<<".","j","p","g">>, <<".","j","p","e","g">>, <<".","h","e","i","c">>}

NoDir == [exists |-> FALSE, entries |-> {}]
Dir(es) == [exists |-> TRUE, entries |-> es]

\* os.listdir returns the entries in an arbitrary order: every ordering of
\* the set es
Listings(es) ==
    {l \in [1..Cardinality(es) -> es] : \A a, b \in 1..Cardinality(es) : l[a] = l[b] => a = b}

HasExtension(p, extensions) == Lower(Suffix(p.name)) \in extensions

\* directory is the state of the path, listing what os.listdir returns for it
get_photos_from_path(directory, listing, extensions) ==
    IF ~directory.exists
    THEN PyNone
    ELSE PyList(SelectSeq(listing, LAMBDA p : HasExtension(p, extensions)))

\* what the call prints
get_photos_stdout(directory) ==
    IF ~directory.exists THEN <<[msg |-> "is not a valid path", arg |-> <<>>]>> ELSE <<>>

----------------------------------------------------------------------------
(* photos_util.construct_df *)

\* get_labeled_exif: the named top-level tags of the file
get_labeled_exif(photo) == photo.tags

\* get_gps_info: the named tags of the GPS IFD, an empty dictionary when the
\* file has no GPS block (Exif.get_ifd returns an empty dictionary then)
get_gps_info(photo) == photo.gps

\* The body of the try block for one photo, statement by statement.  A
\* dictionary lookup of a missing key raises KeyError; the arguments of a
\* call are looked up before the call runs.
try_row(photo, latitude, longitude, date) ==
    IF date.exc # "none" THEN Raise(date.exc)
    ELSE Ok([filename  |-> PyStr(photo.name),
             datetime  |-> PyTs(date.val),
             latitude  |-> PyFloat(latitude.val),
             longitude |-> PyFloat(longitude.val),
             day       |-> PyInt(date.val.day)])

try_date(photo, img_tags, latitude, longitude) ==
    IF longitude.exc # "none" THEN Raise(longitude.exc)
    ELSE IF "DateTime" \notin DOMAIN img_tags THEN Raise("KeyError")
    ELSE try_row(photo, latitude, longitude, strptime(img_tags.DateTime))

try_longitude(photo, img_tags, img_gps, latitude) ==
    IF latitude.exc # "none" THEN Raise(latitude.exc)
    ELSE IF ~({"GPSLongitude", "GPSLongitudeRef"} \subseteq DOMAIN img_gps)
    THEN Raise("KeyError")
    ELSE try_date(photo, img_tags, latitude,
                  convert_coords_to_decimal(img_gps.GPSLongitude, img_gps.GPSLongitudeRef))

try_latitude(photo, img_tags, img_gps) ==
    IF ~({"GPSLatitude", "GPSLatitudeRef"} \subseteq DOMAIN img_gps)
    THEN Raise("KeyError")
    ELSE try_longitude(photo, img_tags, img_gps,
                       convert_coords_to_decimal(img_gps.GPSLatitude, img_gps.GPSLatitudeRef))

try_block(photo) == try_latitude(photo, get_labeled_exif(photo), get_gps_info(photo))

\* the except clause: KeyError is caught and the photo skipped ("continue"),
\* any other exception leaves the function
except_KeyError(r) == IF r.exc = "KeyError" THEN [exc |-> "continue", val |-> 0] ELSE r

\* One iteration of the loop: "continue" (the suffix test, or KeyError
\* caught), a row to append, or an exception that leaves the function.
\* Image.open of a directory raises IsADirectoryError.
loop_body(photo) ==
    IF ~HasExtension(photo, Extensions) THEN [exc |-> "continue", val |-> 0]
    ELSE IF photo.kind = "dir" THEN Raise("IsADirectoryError")
    ELSE except_KeyError(try_block(photo))

\* the loop from photos[k] on, rows being the rows appended so far
construct_step(photos, k, rows, r) ==
    IF r.exc = "continue" THEN [exc |-> "next", val |-> rows]
    ELSE IF r.exc = "none" THEN [exc |-> "next", val |-> Append(rows, r.val)]
    ELSE Raise(r.exc)

RECURSIVE construct_loop(_, _, _)
RECURSIVE construct_next(_, _, _)
construct_loop(photos, k, rows) ==
    IF k > Len(photos) THEN Ok(rows)
    ELSE construct_next(photos, k, construct_step(photos, k, rows, loop_body(photos[k])))

construct_next(photos, k, st) ==
    IF st.exc = "next" THEN construct_loop(photos, k + 1, st.val) ELSE st

\* photos is None or a list; iterating None raises TypeError.  The value is
\* the sequence of rows of the DataFrame (no row: the DataFrame without
\* columns).
construct_df(photos) ==
    IF photos.isNone THEN Raise("TypeError")
    ELSE construct_loop(photos.list, 1, <<>>)

----------------------------------------------------------------------------
(* DataFrame.to_csv and pandas.read_csv *)

Columns == {"filename", "datetime", "latitude", "longitude", "day"}

RECURSIVE Pow10(_)
Pow10(n) == IF n = 0 THEN 1 ELSE 10 * Pow10(n - 1)

\* n in at least w digits, padded with zeros on the left
RECURSIVE Pad(_, _)
Pad(n, w) == IF Len(NatToStr(n)) >= w THEN NatToStr(n)
             ELSE <<"0">> \o Pad(n, w - 1)

\* s without its trailing zeros, down to one character
RECURSIVE StripZeros(_)
StripZeros(s) ==
    IF Len(s) > 1 /\ s[Len(s)] = "0" THEN StripZeros(SubSeq(s, 1, Len(s) - 1)) ELSE s

\* repr of a float of k arc-seconds, for the values whose decimal expansion
\* is finite (k a multiple of 9: at most four decimals): "10.5", "-2.25", "20.0"
FloatToStr(k) ==
    LET a == IF k < 0 THEN 0 - k ELSE k
        frac == Pad(((a % 3600) * 25) \div 9, 4)
    IN  (IF k < 0 THEN <<"-">> ELSE <<>>) \o NatToStr(a \div 3600) \o <<".">> \o StripZeros(frac)

\* a Timestamp as to_csv writes it: YYYY-MM-DD HH:MM:SS
FormatTs(d) ==
    Pad(d.year, 4) \o <<"-">> \o Pad(d.month, 2) \o <<"-">> \o Pad(d.day, 2) \o <<" ">> \o
    Pad(d.hour, 2) \o <<":">> \o Pad(d.minute, 2) \o <<":">> \o Pad(d.second, 2)

\* the text of one cell in the file
CellText(c) ==
    IF c.t = "str" THEN c.v
    ELSE IF c.t = "int" THEN IntToStr(c.v)
    ELSE IF c.t = "float" THEN FloatToStr(c.v)
    ELSE FormatTs(c.v)

\* to_csv(index=False): one line of text cells per row, under the header
to_csv(rows) == [k \in 1..Len(rows) |-> [c \in Columns |-> CellText(rows[k][c])]]

Unsigned(s) == IF Len(s) > 0 /\ s[1] = "-" THEN SubSeq(s, 2, Len(s)) ELSE s

IsIntText(s) == AllDigits(Unsigned(s))

DotAt(s) == IF \E k \in 1..Len(s) : s[k] = "." THEN CHOOSE k \in 1..Len(s) : s[k] = "." ELSE 0

IsFloatText(s) ==
    LET u == Unsigned(s)
        d == DotAt(u)
    IN  \/ IsIntText(s)
        \/ /\ d > 1
           /\ d < Len(u)
           /\ AllDigits(SubSeq(u, 1, d - 1))
           /\ AllDigits(SubSeq(u, d + 1, Len(u)))

ParseInt(s) == IF s[1] = "-" THEN 0 - StrToNat(Unsigned(s)) ELSE StrToNat(s)

\* the float of a cell, in arc-seconds
ParseFloat(s) ==
    LET u == Unsigned(s)
        d == DotAt(u)
        a == IF d = 0 THEN 3600 * StrToNat(u)
             ELSE 3600 * StrToNat(SubSeq(u, 1, d - 1))
                  + (3600 * StrToNat(SubSeq(u, d + 1, Len(u)))) \div Pow10(Len(u) - d)
    IN  IF s[1] = "-" THEN 0 - a ELSE a

\* read_csv infers the type of a column from all its cells: int64 when every
\* cell is an integer, float64 when every cell is a number, text otherwise
ColumnType(lines, c) ==
    IF \A k \in 1..Len(lines) : IsIntText(lines[k][c]) THEN "int"
    ELSE IF \A k \in 1..Len(lines) : IsFloatText(lines[k][c]) THEN "float"
    ELSE "str"

ParseCell(type, s) ==
    IF type = "int" THEN PyInt(ParseInt(s))
    ELSE IF type = "float" THEN PyFloat(ParseFloat(s))
    ELSE PyStr(s)

read_csv(lines) ==
    [k \in 1..Len(lines) |-> [c \in Columns |-> ParseCell(ColumnType(lines, c), lines[k][c])]]

----------------------------------------------------------------------------
(* app.get_df *)

NoFile == [exists |-> FALSE, lines |-> <<>>]
File(lines) == [exists |-> TRUE, lines |-> lines]

\* df.day.min()
day_min(rows) ==
    CHOOSE m \in {rows[k].day.v : k \in 1..Len(rows)} :
        \A k \in 1..Len(rows) : m <= rows[k].day.v

\* a variant that subtracts the minimum itself
normalize_day_from_zero(rows) ==
    [k \in 1..Len(rows) |-> [rows[k] EXCEPT !.day = PyInt(rows[k].day.v - day_min(rows))]]

\* df.day = df.day - (df.day.min() - 1)
normalize_day(rows) ==
    [k \in 1..Len(rows) |->
        [rows[k] EXCEPT !.day = PyInt(rows[k].day.v - (day_min(rows) - 1))]]

\* df.day = df.day.astype(str)
day_astype_str(rows) ==
    [k \in 1..Len(rows) |-> [rows[k] EXCEPT !.day = PyStr(IntToStr(rows[k].day.v))]]

\* The outcome of one call: the exception that left it ("none": it
\* returned ret), the cache file after it, the functions it called, what it
\* printed, what os.listdir returned to it, the list discovery gave it and
\* the outcome of construct_df.

\* the branch that reads the cache file
load_cache(cachefile) ==
    [exc |-> "none", ret |-> read_csv(cachefile.lines), cache |-> cachefile,
     calls |-> {"read_csv"}, stdout |-> <<>>, listing |-> <<>>, photo_list |-> PyNone,
     frame |-> Raise("not called")]

\* the statements after construct_df returned: a DataFrame without rows has
\* no column, so that df.day raises AttributeError
finish_df(out) ==
    IF out.frame.exc # "none" THEN out
    ELSE IF Len(out.frame.val) = 0 THEN [out EXCEPT !.exc = "AttributeError"]
    ELSE [out EXCEPT !.ret = day_astype_str(normalize_day(out.frame.val)),
                     !.cache = File(to_csv(day_astype_str(normalize_day(out.frame.val)))),
                     !.calls = @ \cup {"to_csv"}]

extract_df(directory, listing, cachefile, photo_list, frame) ==
    finish_df([exc |-> frame.exc, ret |-> <<>>, cache |-> cachefile,
               calls |-> {"get_photos_from_path", "construct_df"},
               stdout |-> get_photos_stdout(directory), listing |-> listing,
               photo_list |-> photo_list, frame |-> frame])

\* the branch that builds the dataset and writes the cache file
build_df(directory, listing, cachefile) ==
    extract_df(directory, listing, cachefile,
               get_photos_from_path(directory, listing, Extensions),
               construct_df(get_photos_from_path(directory, listing, Extensions)))

\* a variant that rebuilds the dataset whether or not the cache file exists
get_df_rebuild(directory, listing, cachefile) == build_df(directory, listing, cachefile)

get_df(directory, listing, cachefile) ==
    IF cachefile.exists
    THEN load_cache(cachefile)
    ELSE build_df(directory, listing, cachefile)

----------------------------------------------------------------------------
(* app.show_html_img *)

\* a Timestamp as the figure carries it in hovertext: YYYY-MM-DDTHH:MM:SS
IsoTs(d) ==
    Pad(d.year, 4) \o <<"-">> \o Pad(d.month, 2) \o <<"-">> \o Pad(d.day, 2) \o <<"T">> \o
    Pad(d.hour, 2) \o <<":">> \o Pad(d.minute, 2) \o <<":">> \o Pad(d.second, 2)

\* the hover name of a row: its datetime cell as text
HoverText(c) == IF c.t = "ts" THEN IsoTs(c.v) ELSE c.v

\* clickData of a click on the point plotted for a row
PointOf(row) ==
    [none |-> FALSE, hovertext |-> HoverText(row.datetime),
     lat |-> row.latitude.v, lon |-> row.longitude.v]

NoClick == [none |-> TRUE, hovertext |-> <<>>, lat |-> 0, lon |-> 0]

\* df['datetime'] == p_datetime: a Timestamp column compares as the instant
\* the text denotes, a text column as text
DatetimeEq(c, text) == HoverText(c) = text

AssetsUrl == <<"/","a","s","s","e","t","s","/">>

\* app.get_asset_url(path)
get_asset_url(path) == AssetsUrl \o path

HeicSuffix == <<".","h","e","i","c">>
JpgSuffix == <<".","j","p","g">>

\* the rows the boolean mask selects, in order
Selected(frame, point) ==
    SelectSeq(frame, LAMBDA r : /\ DatetimeEq(r.datetime, point.hovertext)
                                /\ r.latitude.v = point.lat
                                /\ r.longitude.v = point.lon)

show_html_img(clickData, frame) ==
    IF clickData.none THEN <<>>
    ELSE LET img_name == Selected(frame, clickData)[1].filename.v
         IN  IF EndsWith(img_name, HeicSuffix)
             THEN get_asset_url(Replace(img_name, HeicSuffix, JpgSuffix))
             ELSE get_asset_url(img_name)

----------------------------------------------------------------------------
(* The photo files of the scenarios *)

Name(stem, suffix) == <<stem>> \o suffix

\* an EXIF DateTime text of June 2023
June(day) == <<"2","0","2","3",":","0","6",":">> \o Pad(day, 2) \o
             <<" ","1","0",":","0","0",":","0","0">>

DMS(d, m, sec) == <<Num(d), Num(m), Num(sec)>>

Gps(lat, latRef, lon, lonRef) ==
    [GPSLatitude |-> lat, GPSLatitudeRef |-> latRef,
     GPSLongitude |-> lon, GPSLongitudeRef |-> lonRef]

Tags(text) == [DateTime |-> text]

\* a dictionary without any key
Empty == [k \in {} |-> 0]

ImageFile(name, tags, gps) ==
    [name |-> name, kind |-> "file", tags |-> tags, gps |-> gps, children |-> {}]

Directory(name, children) ==
    [name |-> name, kind |-> "dir", tags |-> Empty, gps |-> Empty, children |-> children]

GoodGps == Gps(DMS(10, 30, 0), <<"N">>, DMS(20, 0, 0), <<"E">>)

\* well-formed photos, in the accepted extensions and letter cases
GoodPhotos == {
    ImageFile(Name("a", <<".","j","p","g">>), Tags(June(15)), GoodGps),
    ImageFile(Name("b", <<".","J","P","G">>), Tags(June(17)),
              Gps(DMS(10, 30, 36), <<"s">>, DMS(2, 6, 0), <<"w">>)),
    ImageFile(Name("c", <<".","h","e","i","c">>), Tags(June(15)),
              Gps(DMS(41, 54, 0), <<"N">>, DMS(12, 30, 0), <<"E">>)),
    ImageFile(Name("d", <<".","H","E","I","C">>), Tags(June(20)),
              Gps(DMS(48, 51, 36), <<"N">>, DMS(2, 15, 0), <<"W">>)) }

\* photos that lack a required tag
MissingTagPhotos == {
    \* no GPS block at all
    ImageFile(Name("e", <<".","j","p","e","g">>), Tags(June(17)), Empty),
    \* no DateTime
    ImageFile(Name("f", <<".","j","p","g">>), Empty, GoodGps),
    \* a GPS block with the latitude only
    ImageFile(Name("g", <<".","j","p","g">>), Tags(June(15)),
              [GPSLatitude |-> DMS(10, 30, 0), GPSLatitudeRef |-> <<"N">>]) }

\* photos that carry a malformed value
MalformedPhotos == {
    \* an unknown hemisphere letter, every tag present
    ImageFile(Name("h", <<".","j","p","g">>), Tags(June(15)),
              Gps(DMS(10, 30, 0), <<"X">>, DMS(20, 0, 0), <<"E">>)),
    \* an unknown hemisphere letter and no DateTime
    ImageFile(Name("i", <<".","j","p","g">>), Empty,
              Gps(DMS(10, 30, 0), <<"N">>, DMS(20, 0, 0), <<"x">>)),
    \* a DateTime in another format
    ImageFile(Name("j", <<".","j","p","g">>),
              Tags(<<"2","0","2","3","-","0","6","-","1","5"," ","1","0",":","0","0",":","0","0">>),
              GoodGps),
    \* a coordinate component that is no number
    ImageFile(Name("k", <<".","j","p","g">>), Tags(June(15)),
              Gps(<<Num(10), Txt(<<"x">>), Num(0)>>, <<"N">>, DMS(20, 0, 0), <<"E">>)),
    \* a coordinate of two components
    ImageFile(Name("l", <<".","j","p","g">>), Tags(June(15)),
              Gps(DMS(10, 30, 0), <<"N">>, <<Num(20), Num(0)>>, <<"E">>)) }

\* entries discovery has to leave out
OtherEntries == {
    ImageFile(Name("m", <<".","p","n","g">>), Tags(June(15)), GoodGps),
    \* a sub-directory whose name ends in an accepted extension
    Directory(Name("n", <<".","j","p","g">>), {}),
    \* a sub-directory that holds a photo
    Directory(<<"s","u","b">>,
              {ImageFile(Name("z", <<".","j","p","g">>), Tags(June(15)), GoodGps)}) }

Entries == GoodPhotos \cup MissingTagPhotos \cup MalformedPhotos \cup OtherEntries

\* the photos of the day scenarios: well-formed, on three days of the month
DayStems == {"a", "b", "c", "d", "e"}
RawDays == {15, 17, 20}
DayPhotos ==
    {ImageFile(Name(stem, <<".","j","p","g">>), Tags(June(day)), GoodGps) :
        stem \in DayStems, day \in RawDays}

UniqueNames(es) == \A a, b \in es : a.name = b.name => a = b

----------------------------------------------------------------------------
(* The application process and its environment *)

NoCall == [exc |-> "none", calls |-> {}, stdout |-> <<>>, photo_list |-> PyNone,
           frame |-> Raise("not called"), listing |-> <<>>]

NoConv == [coords |-> <<>>, ref |-> <<>>, result |-> Raise("no call")]

\* the filesystem before the first run: the photo directory missing or
\* empty, no cache file
Init ==
    /\ assets \in {NoDir, Dir({})}
    /\ cache = NoFile
    /\ pc = "stopped"
    /\ df = <<>>
    /\ call = NoCall
    /\ mapClick = NoClick
    /\ src = <<>>
    /\ built = <<>>
    /\ conv = NoConv

\* the process after get_df returned or raised, r being the outcome
Started(r) ==
    /\ pc' = IF r.exc = "none" THEN "serving" ELSE "crashed"
    /\ df' = r.ret
    /\ cache' = r.cache
    /\ built' = IF "to_csv" \in r.calls THEN r.ret ELSE built
    /\ call' = [exc |-> r.exc, calls |-> r.calls, stdout |-> r.stdout,
                listing |-> r.listing, photo_list |-> r.photo_list, frame |-> r.frame]

\* The module body of app.py (df = get_df()): the process starts.  An
\* exception that leaves get_df ends the process.  The html-img element
\* starts with src=''.  os.listdir is called on the path without a cache
\* file only.
Run ==
    /\ pc = "stopped"
    /\ \E listing \in (IF cache.exists THEN {<<>>} ELSE Listings(assets.entries)) :
          Started(get_df(assets, listing, cache))
    /\ mapClick' = NoClick
    /\ src' = <<>>
    /\ UNCHANGED <<assets, conv>>

\* The callback of a click on the map: on the point of a row of df, or
\* the callback's first call, without click data.
Click ==
    /\ pc = "serving"
    /\ \E point \in {NoClick} \cup {PointOf(df[k]) : k \in 1..Len(df)} :
          /\ mapClick' = point
          /\ src' = show_html_img(point, df)
    /\ UNCHANGED <<assets, cache, pc, df, call, built, conv>>

\* the process ends: it is stopped, or its crash is noticed
Stop ==
    /\ pc \in {"serving", "crashed"}
    /\ pc' = "stopped"
    /\ df' = <<>>
    /\ call' = NoCall
    /\ mapClick' = NoClick
    /\ src' = <<>>
    /\ UNCHANGED <<assets, cache, built, conv>>

\* The environment changes the photo directory.  The program reads the
\* filesystem only while get_df runs, so that changes are taken between
\* runs.
AddEntry ==
    /\ pc = "stopped"
    /\ assets.exists
    /\ Cardinality(assets.entries) < MaxFiles
    /\ \E e \in Entries :
          /\ UniqueNames(assets.entries \cup {e})
          /\ e \notin assets.entries
          /\ assets' = Dir(assets.entries \cup {e})
    /\ UNCHANGED <<cache, pc, df, call, mapClick, src, built, conv>>

RemoveEntry ==
    /\ pc = "stopped"
    /\ \E e \in assets.entries : assets' = Dir(assets.entries \ {e})
    /\ UNCHANGED <<cache, pc, df, call, mapClick, src, built, conv>>

MakeDir ==
    /\ pc = "stopped"
    /\ ~assets.exists
    /\ assets' = Dir({})
    /\ UNCHANGED <<cache, pc, df, call, mapClick, src, built, conv>>

RemoveDir ==
    /\ pc = "stopped"
    /\ assets.exists
    /\ assets' = NoDir
    /\ UNCHANGED <<cache, pc, df, call, mapClick, src, built, conv>>

\* the user deletes saved_df.csv
DeleteCache ==
    /\ pc = "stopped"
    /\ cache.exists
    /\ cache' = NoFile
    /\ built' = <<>>
    /\ UNCHANGED <<assets, pc, df, call, mapClick, src, conv>>

Next == Run \/ Click \/ Stop \/ AddEntry \/ RemoveEntry \/ MakeDir \/ RemoveDir \/ DeleteCache

Spec == Init /\ [][Next]_vars

----------------------------------------------------------------------------
(* The day scenarios: a directory of well-formed photos, run and rerun *)

InitDay ==
    /\ assets \in {Dir(es) : es \in {x \in SUBSET DayPhotos :
                                        UniqueNames(x) /\ Cardinality(x) <= MaxDayFiles}}
    /\ cache = NoFile
    /\ pc = "stopped"
    /\ df = <<>>
    /\ call = NoCall
    /\ mapClick = NoClick
    /\ src = <<>>
    /\ built = <<>>
    /\ conv = NoConv

NextDay == Run \/ Stop

SpecDay == InitDay /\ [][NextDay]_vars

----------------------------------------------------------------------------
(* The converter on its own *)

Components == (0..MaxComponent) \cup {10, 30, 59}

Refs == {<<"N">>, <<"S">>, <<"E">>, <<"W">>, <<"n">>, <<"s">>, <<"e">>, <<"w">>,
         <<"X">>, <<"x">>, <<>>, <<"N","E">>}

\* the arguments of a call that has not run yet
Pending(coords, ref) == [coords |-> coords, ref |-> ref, result |-> Raise("not called")]

InitConvert ==
    /\ assets = NoDir
    /\ cache = NoFile
    /\ pc = "stopped"
    /\ df = <<>>
    /\ call = NoCall
    /\ mapClick = NoClick
    /\ src = <<>>
    /\ built = <<>>
    /\ conv \in {Pending(DMS(d, m, sec), ref) : d, m, sec \in Components, ref \in Refs}

\* the call runs
Convert ==
    /\ conv.result.exc = "not called"
    /\ conv' = [conv EXCEPT !.result = convert_coords_to_decimal(conv.coords, conv.ref)]
    /\ UNCHANGED <<assets, cache, pc, df, call, mapClick, src, built>>

NextConvert == Convert

SpecConvert == InitConvert /\ [][NextConvert]_vars

----------------------------------------------------------------------------
(* Properties *)

\* a get_df call that found no cache file has ended in the current process;
\* the photo directory is still as the call saw it
BuildEnded == pc # "stopped" /\ "construct_df" \in call.calls

\* construct_df was given a list
Constructed == BuildEnded /\ ~call.photo_list.isNone

RequiredGps == {"GPSLatitude", "GPSLatitudeRef", "GPSLongitude", "GPSLongitudeRef"}

CarriesAllTags(p) == RequiredGps \subseteq DOMAIN p.gps /\ "DateTime" \in DOMAIN p.tags

HemisphereLetters == {<<"N">>, <<"S">>, <<"E">>, <<"W">>, <<"n">>, <<"s">>, <<"e">>, <<"w">>}

NumericTriple(c) == Len(c) = 3 /\ \A k \in 1..3 : c[k].t = "num"

\* a coordinate that is no triple of numbers, or a DateTime that does not
\* parse with the format
MalformedValue(p) ==
    \/ \E t \in {"GPSLatitude", "GPSLongitude"} \cap DOMAIN p.gps : ~NumericTriple(p.gps[t])
    \/ "DateTime" \in DOMAIN p.tags /\ strptime(p.tags.DateTime).exc # "none"

UnknownHemisphere(p) ==
    \E t \in {"GPSLatitudeRef", "GPSLongitudeRef"} \cap DOMAIN p.gps :
        p.gps[t] \notin HemisphereLetters

\* a photo the extractor is to make a record of
Recordable(p) ==
    /\ p.kind = "file"
    /\ CarriesAllTags(p)
    /\ ~MalformedValue(p)
    /\ ~UnknownHemisphere(p)

FileNames(rows) == [k \in 1..Len(rows) |-> rows[k].filename.v]

NamesOf(photos) == [k \in 1..Len(photos) |-> photos[k].name]

\* C1: for every list of discovered files, construct_df returns a dataset
\* whose rows are exactly the files that carry GPSLatitude, GPSLatitudeRef,
\* GPSLongitude, GPSLongitudeRef and DateTime, one row per file, in
\* discovery order; a file that misses a tag gives no row and does not stop
\* the files after it.
C1_RowsAreTheFullyTaggedFiles ==
    Constructed =>
        /\ call.frame.exc = "none"
        /\ FileNames(call.frame.val) =
               NamesOf(SelectSeq(call.photo_list.list, CarriesAllTags))

\* C2: a file whose DateTime does not parse or whose coordinate components
\* are malformed is skipped like a file with missing tags, and construct_df
\* still returns the dataset of the other files.
C2_MalformedFilesAreSkipped ==
    (Constructed /\ \E k \in 1..Len(call.photo_list.list) :
                        MalformedValue(call.photo_list.list[k])) =>
        /\ call.frame.exc = "none"
        /\ FileNames(call.frame.val) = NamesOf(SelectSeq(call.photo_list.list, Recordable))

\* C3: a file with an unrecognized hemisphere letter gives no record (the
\* converter returns no coordinate for it), and the records of the other
\* files of the batch are still produced.
C3_UnknownHemisphereRejectsOneRecord ==
    (Constructed /\ \E k \in 1..Len(call.photo_list.list) :
                        UnknownHemisphere(call.photo_list.list[k])) =>
        /\ call.frame.exc = "none"
        /\ \A k \in 1..Len(call.photo_list.list) :
              LET p == call.photo_list.list[k]
              IN  /\ UnknownHemisphere(p) =>
                        \A j \in 1..Len(call.frame.val) : call.frame.val[j].filename.v # p.name
                  /\ Recordable(p) =>
                        \E j \in 1..Len(call.frame.val) : call.frame.val[j].filename.v = p.name

\* C4: when the photo directory does not exist, get_df without a cache
\* reports the error and yields an empty result; no exception escapes and
\* the run does not crash.
C4_MissingDirectoryYieldsEmptyResult ==
    (BuildEnded /\ ~assets.exists) =>
        /\ call.exc = "none"
        /\ pc = "serving"
        /\ Len(df) = 0
        /\ Len(call.stdout) > 0

\* C5: once the cache file exists, a call of get_df returns the content of
\* the cache as it is and runs no discovery, no extraction and no rewrite of
\* the cache, whatever the photo directory holds; only a call without a
\* cache file runs discovery and extraction, and only such a call writes
\* the cache.
C5_CacheIsAuthoritative ==
    [][/\ (pc = "stopped" /\ pc' # "stopped" /\ cache.exists) =>
              /\ pc' = "serving"
              /\ cache' = cache
              /\ call'.calls = {"read_csv"}
              /\ to_csv(df') = cache.lines
       /\ (pc = "stopped" /\ pc' # "stopped" /\ ~cache.exists) =>
              {"get_photos_from_path", "construct_df"} \subseteq call'.calls
       /\ (cache' # cache /\ cache'.exists) =>
              /\ ~cache.exists
              /\ pc = "stopped"
              /\ pc' = "serving"
              /\ "to_csv" \in call'.calls]_vars

\* C5 witness: a process serves the rows of the cache while the photo
\* directory holds other photos, none of them in the cache
C5_Witness ==
    /\ pc = "serving"
    /\ call.calls = {"read_csv"}
    /\ Len(df) > 0
    /\ \E e \in assets.entries : Recordable(e)
    /\ \A e \in assets.entries : \A k \in 1..Len(df) : df[k].filename.v # e.name

RoundTripColumns == {"filename", "latitude", "longitude", "day"}

\* C6: the dataset get_df returns when it reads the cache back has the
\* filename, latitude, longitude and day of the dataset get_df returned
\* when it wrote the cache, in every row, in value and in representation.
C6_CacheRoundTripIsIdentical ==
    (pc = "serving" /\ call.calls = {"read_csv"}) =>
        /\ Len(df) = Len(built)
        /\ \A k \in 1..Len(df) : \A c \in RoundTripColumns :
              /\ df[k][c].t = built[k][c].t
              /\ df[k][c].v = built[k][c].v

\* the day of month in an EXIF DateTime text of the scenarios
RawDay(p) == StrToNat(SubSeq(p.tags.DateTime, 9, 10))

\* the number a day cell stands for
DayNumber(c) == IF c.t = "str" THEN StrToNat(c.v) ELSE c.v

\* C7: for a non-empty dataset, get_df makes every record's day
\* raw_day - min_day + 1, min_day being the smallest raw day of month of all
\* records: every day is at least 1, the earliest records get 1, and the
\* differences between days are kept.
C7_DaysAreNormalizedFromOne ==
    (pc = "serving" /\ "to_csv" \in call.calls) =>
        /\ Len(df) = Len(call.listing)
        /\ Len(df) > 0
        /\ \E m \in 1..Len(df) :
              /\ DayNumber(df[m].day) = 1
              /\ \A k \in 1..Len(df) :
                    /\ RawDay(call.listing[m]) <= RawDay(call.listing[k])
                    /\ DayNumber(df[k].day) >= 1
                    /\ DayNumber(df[k].day) =
                           RawDay(call.listing[k]) - RawDay(call.listing[m]) + 1

\* C7 witness: raw days 15, 17, 15, 20 give 1, 3, 1, 6
C7_Witness ==
    /\ pc = "serving"
    /\ "to_csv" \in call.calls
    /\ [k \in 1..Len(call.listing) |-> RawDay(call.listing[k])] = <<15, 17, 15, 20>>
    /\ [k \in 1..Len(df) |-> df[k].day.v] = << <<"1">>, <<"3">>, <<"1">>, <<"6">> >>

\* C8: for non-negative (deg, min, sec) and a letter of N, E, S, W in either
\* case, the converter returns sign * (deg + min/60 + sec/3600), the sign
\* being +1 for N and E and -1 for S and W (here in arc-seconds).
C8_ConvertIsSignedDecimalDegrees ==
    (conv.result.exc # "not called" /\ conv.ref \in HemisphereLetters) =>
        LET magnitude == 3600 * conv.coords[1].v + 60 * conv.coords[2].v + conv.coords[3].v
        IN  /\ conv.result.exc = "none"
            /\ conv.ref \in {<<"N">>, <<"E">>, <<"n">>, <<"e">>} =>
                   conv.result.val = magnitude /\ conv.result.val >= 0
            /\ conv.ref \in {<<"S">>, <<"W">>, <<"s">>, <<"w">>} =>
                   conv.result.val = 0 - magnitude /\ conv.result.val <= 0

\* C8 witness: convert((10, 30, 0), "s") is -10.5 degrees
C8_Witness ==
    /\ conv.coords = DMS(10, 30, 0)
    /\ conv.ref = <<"s">>
    /\ conv.result = Ok(-37800)

\* a name that ends in an accepted extension, in any letter case
AcceptedName(name) ==
    \E ext \in Extensions : Len(name) > Len(ext) /\ EndsWith(Lower(name), ext)

\* C9: for an existing directory, discovery returns exactly the top-level
\* files whose extension is accepted, case-insensitively: nothing from
\* sub-directories, no entry that is not a file, no other extension, and an
\* empty sequence when nothing matches.
C9_DiscoveryReturnsTheMatchingFiles ==
    (BuildEnded /\ assets.exists) =>
        /\ ~call.photo_list.isNone
        /\ call.photo_list.list =
               SelectSeq(call.listing, LAMBDA p : p.kind = "file" /\ AcceptedName(p.name))
        /\ \A k \in 1..Len(call.photo_list.list) : call.photo_list.list[k] \in assets.entries

\* the asset the claim expects for a file name: the .jpg sibling of a
\* .heic file of any letter case, the file itself otherwise
ExpectedUrl(name) ==
    IF EndsWith(Lower(name), HeicSuffix)
    THEN AssetsUrl \o SubSeq(name, 1, Len(name) - Len(HeicSuffix)) \o JpgSuffix
    ELSE AssetsUrl \o name

\* C10: a click on the record of a .heic file (in any letter case) shows the
\* same-named .jpg sibling, never the .heic file; a click on a .jpg or .jpeg
\* record shows the file itself; without click data the src is empty.
C10_ClickShowsTheJpgSibling ==
    pc = "serving" =>
        IF mapClick.none THEN src = <<>>
        ELSE \A k \in 1..Len(df) :
                 mapClick = PointOf(df[k]) => src = ExpectedUrl(df[k].filename.v)

====
